---------------------------- MODULE Spec2Model ----------------------------
(***************************************************************************)
(* A model of two parts of the repository:                                 *)
(*                                                                         *)
(*   python_px4_ros2_map_nav/kalman.py      SimpleFilter, the position     *)
(*                                          smoother (buffer, then online) *)
(*   gisnav/gisnav/core/transform_node.py   TransformNode: the admission   *)
(*                                          gate, the image aligner and    *)
(*                                          the pnp_image cycle            *)
(*                                                                         *)
(* Python's None is the record None below.  Numbers are integers: an       *)
(* altitude in metres, an angle in degrees, a pixel count.  The Kalman     *)
(* filter's numbers are not computed: a mean or a covariance is modelled   *)
(* by the sequence of measurement rows it was computed from, which is what *)
(* the claims about buffering, priming and online updates are about.       *)
(*                                                                         *)
(* transform_node.py uses names it never binds (query_array, pose,         *)
(* geotransform, geopoint, altitude, intermediate_outputs in _pnp_image;   *)
(* alt, lat, lon in _post_process_pose; self.altitude).  The model reads   *)
(* each of them as a value supplied from outside the function, drawn from  *)
(* a small set, and says so where it does.                                 *)
(***************************************************************************)
EXTENDS Integers, Sequences, FiniteSets, TLC

VARIABLES
    \* ---- SimpleFilter (kalman.py) ----
    window_length,          \* self._window_length
    measurements,           \* self._measurements: None, or the rows of the array
    initial_state_mean,     \* self._initial_state_mean
    kf,                     \* self._kf
    previous_mean,          \* self._previous_mean
    previous_covariance,    \* self._previous_covariance
    update_call,            \* the last call of update: its number, argument, return
    runs,                   \* how often em, filter and filter_update have run
    \* ---- TransformNode (transform_node.py) ----
    image,                  \* self.image: the latest camera frame
    orthoimage,             \* self.orthoimage: the latest orthoimage stack
    camera_geopose,         \* self.camera_geopose
    altitude,               \* self.altitude
    max_pitch,              \* self.max_pitch (ROS parameter)
    min_match_altitude,     \* self.min_match_altitude (ROS parameter)
    gate_call,              \* the last call of _should_estimate_geopose
    pc,                     \* where the pnp_image cycle stands
    cycle,                  \* the locals of the running pnp_image cycle
    post_call,              \* the last run of the pose post-processing
    static_call,            \* the last call of a static or class method
    \* ---- callers of one SimpleFilter running at the same time ----
    callers                 \* each caller's place in update and its locals

filter_vars == <<window_length, measurements, initial_state_mean, kf,
                 previous_mean, previous_covariance, update_call, runs>>
input_vars == <<image, orthoimage, camera_geopose, altitude>>
param_vars == <<max_pitch, min_match_altitude>>
node_vars == <<input_vars, param_vars, gate_call, pc, cycle, post_call>>
extra_vars == <<static_call, callers>>
vars == <<filter_vars, node_vars, extra_vars>>

None == [none |-> TRUE]

\* The callers of update: two threads, none inside update.
Callers == {1, 2}
Idle == [pc |-> "idle"]
NoCallers == [c \in Callers |-> Idle]

(***************************************************************************)
(* Bounds of the model.                                                    *)
(***************************************************************************)
MaxWindow == 3          \* window lengths 0..MaxWindow
MaxMeasurement == 2     \* distinct measurement rows
MaxCalls == 5           \* calls of SimpleFilter.update in one run
MaxStamp == 2           \* orthoimage messages delivered in one run
LonScale == 10          \* longitudes are whole multiples of 1/LonScale degree
MaxDim == 3             \* raster and crop heights and widths 1..MaxDim

(***************************************************************************)
(* Program constants.                                                      *)
(***************************************************************************)
ROS_D_MISC_MAX_PITCH == 30
ROS_D_MISC_MIN_MATCH_ALTITUDE == 80

(***************************************************************************)
(*                        SimpleFilter  (kalman.py)                        *)
(***************************************************************************)

\* A measurement is a 1x3 array, one row <<x, y, z>>.
Measurements == {<<v, v + 1, v + 2>> : v \in 1..MaxMeasurement}

\* A numpy array of measurement rows (a value that is not None).
Array(rows) == [rows |-> rows]

\* The array np.vstack((a, b)) builds: the rows of a, then the row b.
vstack(a, b) == Array(Append(a.rows, b))

\* len(array)
len(a) == Len(a.rows)

\* KalmanFilter(...).em(measurements, n_iter=20): the filter whose noise
\* parameters were learned from these rows, started at this mean.
KalmanFilter_em(init_mean, a) == [initial_state_mean |-> init_mean, em |-> a.rows]

\* kf.filter(measurements): the last mean (covariance) of the forward pass
\* over the rows is computed from all of them.
kf_filter(a) == [from |-> a.rows]

\* kf.filter_update(mean, covariance, measurement): one online step from the
\* given previous estimate.
kf_filter_update(prev, measurement) == [from |-> Append(prev.from, measurement)]

\* What update returns once primed: (mean[0::2], sqrt(diag(covariance)[0::2])).
Estimate(mean, covariance) == [xyz_mean |-> mean.from, xyz_sd |-> covariance.from]

\* _init_initial_state(measurements)
InitialStateMean(a) ==
    [mean |-> <<a.rows[1][1], 0, a.rows[1][2], 0, a.rows[1][3], 0>>]

\* "if self._kf is None" of update
NeedsPriming_Always(k) == TRUE

NeedsPriming(k) == k = None

\* "elif len(self._measurements) < self._window_length" of update
StillBuffering(a, w) == len(a) < w

\* update, first branch: the first measurement becomes the array.
UpdateFirst(m) ==
    /\ measurements = None
    /\ measurements' = Array(<<m>>)
    /\ initial_state_mean' = InitialStateMean(measurements')
    /\ update_call' = [n |-> update_call.n + 1, arg |-> m, ret |-> None]
    /\ UNCHANGED <<window_length, kf, previous_mean, previous_covariance, runs>>

\* update, second branch: the measurement is appended.
UpdateBuffer(m) ==
    /\ measurements # None
    /\ StillBuffering(measurements, window_length)
    /\ measurements' = vstack(measurements, m)
    /\ update_call' = [n |-> update_call.n + 1, arg |-> m, ret |-> None]
    /\ UNCHANGED <<window_length, initial_state_mean, kf, previous_mean,
                   previous_covariance, runs>>

\* update, third branch with self._kf None: em over the buffer, then one
\* forward pass over the same buffer.  The argument is not read.
UpdatePrime(m) ==
    /\ measurements # None
    /\ ~StillBuffering(measurements, window_length)
    /\ NeedsPriming(kf)
    /\ kf' = KalmanFilter_em(initial_state_mean, measurements)
    /\ previous_mean' = kf_filter(measurements)
    /\ previous_covariance' = kf_filter(measurements)
    /\ runs' = [runs EXCEPT !.em = @ + 1, !.filter = @ + 1]
    /\ update_call' = [n |-> update_call.n + 1, arg |-> m,
                       ret |-> Estimate(previous_mean', previous_covariance')]
    /\ UNCHANGED <<window_length, measurements, initial_state_mean>>

\* update, third branch with self._kf set: one filter_update from the stored
\* mean and covariance.
UpdateOnline(m) ==
    /\ measurements # None
    /\ ~StillBuffering(measurements, window_length)
    /\ ~NeedsPriming(kf)
    /\ previous_mean # None
    /\ previous_covariance # None
    /\ previous_mean' = kf_filter_update(previous_mean, m)
    /\ previous_covariance' = kf_filter_update(previous_covariance, m)
    /\ runs' = [runs EXCEPT !.filter_update = @ + 1]
    /\ update_call' = [n |-> update_call.n + 1, arg |-> m,
                       ret |-> Estimate(previous_mean', previous_covariance')]
    /\ UNCHANGED <<window_length, measurements, initial_state_mean, kf>>

\* SimpleFilter.update(measurement)
Update ==
    /\ update_call.n < MaxCalls
    /\ \E m \in Measurements :
          \/ UpdateFirst(m)
          \/ UpdateBuffer(m)
          \/ UpdatePrime(m)
          \/ UpdateOnline(m)
    /\ UNCHANGED <<node_vars, extra_vars>>

(***************************************************************************)
(* SimpleFilter.update called by two callers at once.  The method takes no *)
(* lock, so a caller can be preempted between any two reads or writes of   *)
(* the filter's attributes.  Each step below is one such read, test or     *)
(* write, named after its line in kalman.py; callers[c] holds the caller's *)
(* position, its argument and the value it holds in a local.               *)
(***************************************************************************)

At(c, label) == callers[c].pc = label

Goto(c, label, local) ==
    callers' = [callers EXCEPT ![c] = [pc |-> label, m |-> callers[c].m, local |-> local]]

Active == {c \in Callers : callers[c] # Idle}

\* The call of caller c ends with this value (returned or raised).
Return(c, ret) ==
    /\ callers' = [callers EXCEPT ![c] = Idle]
    /\ update_call' = [n |-> update_call.n + 1, arg |-> callers[c].m, ret |-> ret]

AssertionErrorRaised == [raised |-> "AssertionError"]

\* KalmanFilter(..., initial_state_mean=...): a filter whose parameters have
\* not been learned yet.
KalmanFilter(init_mean) == [initial_state_mean |-> init_mean, em |-> <<>>]

\* A caller enters update(measurement).
CallUpdate(c) ==
    /\ callers[c] = Idle
    /\ update_call.n + Cardinality(Active) < MaxCalls
    /\ \E m \in Measurements :
          callers' = [callers EXCEPT ![c] = [pc |-> "L66", m |-> m, local |-> None]]
    /\ UNCHANGED <<filter_vars, node_vars, static_call>>

\* "if self._measurements is None"
L66(c) ==
    /\ At(c, "L66")
    /\ Goto(c, IF measurements = None THEN "L48" ELSE "L70", None)
    /\ UNCHANGED <<filter_vars, node_vars, static_call>>

\* _init_initial_state: "self._measurements = measurements"
L48(c) ==
    /\ At(c, "L48")
    /\ measurements' = Array(<<callers[c].m>>)
    /\ Goto(c, "L49", None)
    /\ UNCHANGED <<window_length, initial_state_mean, kf, previous_mean,
                   previous_covariance, update_call, runs, node_vars, static_call>>

\* _init_initial_state: "self._initial_state_mean = ..." from the array as it
\* is now; then "return None".
L49(c) ==
    /\ At(c, "L49")
    /\ initial_state_mean' = InitialStateMean(measurements)
    /\ Return(c, None)
    /\ UNCHANGED <<window_length, measurements, kf, previous_mean,
                   previous_covariance, runs, node_vars, static_call>>

\* "elif len(self._measurements) < self._window_length"
L70(c) ==
    /\ At(c, "L70")
    /\ Goto(c, IF StillBuffering(measurements, window_length) THEN "L72" ELSE "L80",
            None)
    /\ UNCHANGED <<filter_vars, node_vars, static_call>>

\* Line 72, right-hand side: np.vstack((self._measurements, measurement))
L72_vstack(c) ==
    /\ At(c, "L72")
    /\ Goto(c, "L72_store", vstack(measurements, callers[c].m))
    /\ UNCHANGED <<filter_vars, node_vars, static_call>>

\* Line 72, the assignment to self._measurements; then "return None".
L72_store(c) ==
    /\ At(c, "L72_store")
    /\ measurements' = callers[c].local
    /\ Return(c, None)
    /\ UNCHANGED <<window_length, initial_state_mean, kf, previous_mean,
                   previous_covariance, runs, node_vars, static_call>>

\* "if self._kf is None" (the assert of line 79 holds of every array)
L80(c) ==
    /\ At(c, "L80")
    /\ Goto(c, IF NeedsPriming(kf) THEN "L82" ELSE "L94", None)
    /\ UNCHANGED <<filter_vars, node_vars, static_call>>

\* "self._kf = KalmanFilter(...)"
L82(c) ==
    /\ At(c, "L82")
    /\ kf' = KalmanFilter(initial_state_mean)
    /\ Goto(c, "L87", None)
    /\ UNCHANGED <<window_length, measurements, initial_state_mean, previous_mean,
                   previous_covariance, update_call, runs, node_vars, static_call>>

\* "self._kf = self._kf.em(self._measurements, n_iter=20)"
L87(c) ==
    /\ At(c, "L87")
    /\ kf' = KalmanFilter_em(kf.initial_state_mean, measurements)
    /\ runs' = [runs EXCEPT !.em = @ + 1]
    /\ Goto(c, "L90", None)
    /\ UNCHANGED <<window_length, measurements, initial_state_mean, previous_mean,
                   previous_covariance, update_call, node_vars, static_call>>

\* "means, covariances = self._kf.filter(self._measurements)"
L90(c) ==
    /\ At(c, "L90")
    /\ runs' = [runs EXCEPT !.filter = @ + 1]
    /\ Goto(c, "L102", kf_filter(measurements))
    /\ UNCHANGED <<window_length, measurements, initial_state_mean, kf, previous_mean,
                   previous_covariance, update_call, node_vars, static_call>>

\* The asserts of lines 94-95 fail: the filter exists, the stored estimate
\* does not yet.
L94_raise(c) ==
    /\ At(c, "L94")
    /\ previous_mean = None \/ previous_covariance = None
    /\ Return(c, AssertionErrorRaised)
    /\ UNCHANGED <<window_length, measurements, initial_state_mean, kf, previous_mean,
                   previous_covariance, runs, node_vars, static_call>>

\* "mean, covariance = self._kf.filter_update(self._previous_mean, ...)"
L96(c) ==
    /\ At(c, "L94")
    /\ previous_mean # None
    /\ previous_covariance # None
    /\ runs' = [runs EXCEPT !.filter_update = @ + 1]
    /\ Goto(c, "L102", kf_filter_update(previous_mean, callers[c].m))
    /\ UNCHANGED <<window_length, measurements, initial_state_mean, kf, previous_mean,
                   previous_covariance, update_call, node_vars, static_call>>

\* "self._previous_mean = mean; self._previous_covariance = covariance", then
\* "return xyz_mean, xyz_sd".
L102(c) ==
    /\ At(c, "L102")
    /\ previous_mean' = callers[c].local
    /\ previous_covariance' = callers[c].local
    /\ Return(c, Estimate(callers[c].local, callers[c].local))
    /\ UNCHANGED <<window_length, measurements, initial_state_mean, kf, runs,
                   node_vars, static_call>>

(***************************************************************************)
(*                  TransformNode  (transform_node.py)                     *)
(*                                                                         *)
(* The admission gate.  An orientation quaternion is modelled by the two   *)
(* Euler angles the code extracts from it, in whole degrees: pitch is      *)
(* arcsin(2(wy - xz)) and yaw is arctan2(2(wz + xy), 1 - 2(yy + zz)).      *)
(* An altitude above ground (Altitude.terrain) is a float: a number, the   *)
(* object np.nan itself, or another float that is not-a-number (one that   *)
(* arithmetic or message deserialisation produced).                        *)
(***************************************************************************)

Float(v) == [kind |-> "float", v |-> v]
NpNan == [kind |-> "np.nan", v |-> 0]
OtherNan == [kind |-> "nan", v |-> 0]

IsNan(x) == x.kind # "float"

\* Python's "x < n" on a float and an int: False when x is not-a-number.
FloatLt(x, n) == x.kind = "float" /\ x.v < n

\* The messages the subscriptions deliver.
Terrains ==
    {NpNan, OtherNan} \cup
    {Float(ROS_D_MISC_MIN_MATCH_ALTITUDE + d) : d \in {-1, 0, 1}}
Altitudes == {[terrain |-> t] : t \in Terrains}
Pitches == {90, 90 - ROS_D_MISC_MAX_PITCH, 90 - ROS_D_MISC_MAX_PITCH - 1}
Yaws == {90, 0}
CameraGeoposes == {[orientation |-> [pitch |-> p, yaw |-> y]] : p \in Pitches, y \in Yaws}

\* _off_nadir_pitch(q): degrees(pi/2 - arcsin(...))
_off_nadir_pitch(q) == 90 - q.pitch

\* "if off_nadir_pitch_deg > max_pitch" of _camera_roll_or_pitch_too_high
PitchAboveLimit_Inclusive(off_nadir_pitch_deg, limit) == off_nadir_pitch_deg >= limit

PitchAboveLimit(off_nadir_pitch_deg, limit) == off_nadir_pitch_deg > limit

\* _camera_roll_or_pitch_too_high(max_pitch), reading self.camera_geopose
_camera_roll_or_pitch_too_high(geopose, limit) ==
    IF geopose # None
    THEN PitchAboveLimit(_off_nadir_pitch(geopose.orientation), limit)
    ELSE TRUE

\* "if altitude.terrain is np.nan" of _should_estimate: an identity test
\* against the one object np.nan.
TerrainIsNpNan(terrain) == terrain.kind = "np.nan"

\* "if altitude.terrain < min_alt" of _should_estimate
TerrainTooLow_Inclusive(terrain, min_alt) ==
    terrain.kind = "float" /\ terrain.v <= min_alt

TerrainTooLow(terrain, min_alt) == FloatLt(terrain, min_alt)

\* The inner function _should_estimate(altitude, max_pitch, min_alt) with its
\* arguments present.
_should_estimate(alt, geopose, limit, min_alt) ==
    IF _camera_roll_or_pitch_too_high(geopose, limit) THEN "False"
    ELSE IF ~(min_alt > 0) THEN "AssertionError"
    ELSE IF TerrainIsNpNan(alt.terrain) THEN "False"
    ELSE IF TerrainTooLow(alt.terrain, min_alt) THEN "False"
    ELSE "True"

\* @narrow_types: a call with an argument that is None is not made and
\* yields None.
narrow_types(args) == \A i \in 1..Len(args) : args[i] # None

\* _should_estimate_geopose(): bool(_should_estimate(self.altitude,
\* self.max_pitch, self.min_match_altitude)); bool(None) is False.
_should_estimate_geopose(alt, geopose, limit, min_alt) ==
    IF narrow_types(<<alt>>)
    THEN _should_estimate(alt, geopose, limit, min_alt)
    ELSE "False"

NotCalled == [n |-> 0]

\* One call of _should_estimate_geopose, recorded with what it read.
ShouldEstimateGeopose ==
    /\ gate_call' = [n |-> 1,
                     altitude |-> altitude,
                     camera_geopose |-> camera_geopose,
                     ret |-> _should_estimate_geopose(altitude, camera_geopose,
                                                      max_pitch, min_match_altitude)]
    /\ UNCHANGED <<input_vars, param_vars, pc, cycle, post_call, filter_vars, extra_vars>>

\* The subscription callbacks: each stores the message it is given.
CameraGeoposeCallback ==
    /\ \E msg \in CameraGeoposes : camera_geopose' = msg
    /\ UNCHANGED <<image, orthoimage, altitude, param_vars, gate_call, pc, cycle,
                   post_call, filter_vars, extra_vars>>

AltitudeCallback ==
    /\ \E msg \in Altitudes : altitude' = msg
    /\ UNCHANGED <<image, orthoimage, camera_geopose, param_vars, gate_call, pc,
                   cycle, post_call, filter_vars, extra_vars>>

(***************************************************************************)
(* The image aligner.  A matrix is a tuple of rows.  Angles are multiples  *)
(* of 90 degrees, where cosine and sine are integers and the matrices are  *)
(* exact.  A raster is modelled by its shape (rows, columns) and by the    *)
(* message it was read from.                                               *)
(***************************************************************************)

RECURSIVE SumTo(_, _)
SumTo(f, n) == IF n = 0 THEN 0 ELSE f[n] + SumTo(f, n - 1)

\* np.dot(a, b) / a @ b
Dot(a, b) ==
    [i \in 1..Len(a) |->
        [j \in 1..Len(b[1]) |->
            SumTo([k \in 1..Len(b) |-> a[i][k] * b[k][j]], Len(b))]]

\* The matrix without row i and column j.
Minor(m, i, j) ==
    [r \in 1..(Len(m) - 1) |->
        [c \in 1..(Len(m) - 1) |->
            m[IF r < i THEN r ELSE r + 1][IF c < j THEN c ELSE c + 1]]]

RECURSIVE Det(_)
Det(m) ==
    IF Len(m) = 1 THEN m[1][1]
    ELSE SumTo([j \in 1..Len(m) |->
                   (IF j % 2 = 1 THEN 1 ELSE -1) * m[1][j] * Det(Minor(m, 1, j))],
               Len(m))

\* np.linalg.inv(m) raises LinAlgError exactly when m is singular.
LinAlgError(m) == Det(m) = 0

\* np.linalg.inv(m) of a matrix that is not singular: the adjugate over the
\* determinant (exact for the integer matrices of determinant 1 or -1 that
\* rotations by multiples of 90 degrees give).
inv(m) ==
    [i \in 1..Len(m) |->
        [j \in 1..Len(m) |->
            ((IF (i + j) % 2 = 0 THEN 1 ELSE -1) * Det(Minor(m, j, i))) \div Det(m)]]

\* m[:3, :3]
Block3(m) == [i \in 1..3 |-> [j \in 1..3 |-> m[i][j]]]

Cos(degrees) ==
    CASE degrees % 360 = 0 -> 1
      [] degrees % 360 = 90 -> 0
      [] degrees % 360 = 180 -> -1
      [] degrees % 360 = 270 -> 0

Sin(degrees) ==
    CASE degrees % 360 = 0 -> 0
      [] degrees % 360 = 90 -> 1
      [] degrees % 360 = 180 -> 0
      [] degrees % 360 = 270 -> -1

\* _extract_yaw(q): the heading, (90 - yaw + 360) % 360
_extract_yaw(q) == ((90 - q.yaw) + 360) % 360

\* cv2.getRotationMatrix2D((cx, cy), degrees, 1.0)
getRotationMatrix2D(cx, cy, degrees) ==
    LET alpha == Cos(degrees)
        beta == Sin(degrees)
    IN  << <<alpha, beta, (1 - alpha) * cx - beta * cy>>,
           <<-beta, alpha, beta * cx + (1 - alpha) * cy>> >>

\* _get_rotation_matrix(image, degrees): the centre is (height // 2, width // 2)
_get_rotation_matrix(shape, degrees) ==
    getRotationMatrix2D(shape[1] \div 2, shape[2] \div 2, degrees)

\* _get_translation_matrix(dx, dy)
_get_translation_matrix(dx, dy) == << <<1, 0, dx>>, <<0, 1, dy>> >>

\* The crop offsets of _get_affine_matrix: (source - crop) // 2 per axis.
CropOffset(source_dim, crop_dim) == (source_dim - crop_dim) \div 2

\* np.eye(4) with [:2, :2] and [:2, 3] set from a 2x3 affine.
Pad4_Zeros(affine_2d) ==
    << <<affine_2d[1][1], affine_2d[1][2], 0, affine_2d[1][3]>>,
       <<affine_2d[2][1], affine_2d[2][2], 0, affine_2d[2][3]>>,
       <<0, 0, 0, 0>>,
       <<0, 0, 0, 0>> >>

Pad4(affine_2d) ==
    << <<affine_2d[1][1], affine_2d[1][2], 0, affine_2d[1][3]>>,
       <<affine_2d[2][1], affine_2d[2][2], 0, affine_2d[2][3]>>,
       <<0, 0, 1, 0>>,
       <<0, 0, 0, 1>> >>

\* np.vstack([r, [0, 0, 1]])
Homogeneous(r) == <<r[1], r[2], <<0, 0, 1>>>>

\* _get_affine_matrix up to its first "assert affine_3d.shape == (4, 4)":
\* the rotation composed with the crop translation (dx, dy), padded to 4x4.
affine_3d_before_hack(shape, degrees, crop_height, crop_width) ==
    LET r == _get_rotation_matrix(shape, degrees)
        dx == CropOffset(shape[1], crop_height)
        dy == CropOffset(shape[2], crop_width)
        t == _get_translation_matrix(dx, dy)
        affine_2d == Dot(t, Homogeneous(r))
    IN  Pad4(affine_2d)

\* _get_affine_matrix(image, degrees, crop_height, crop_width): after the
\* translation hack "t[:2, 2] = -t[:2, 2][::-1]" the same affine_3d is
\* overwritten with affine_hack and returned.
_get_affine_matrix(shape, degrees, crop_height, crop_width) ==
    LET r == _get_rotation_matrix(shape, degrees)
        dx == CropOffset(shape[1], crop_height)
        dy == CropOffset(shape[2], crop_width)
        t == _get_translation_matrix(-dy, -dx)
        affine_hack == Dot(t, Homogeneous(r))
    IN  Pad4(affine_hack)

\* cv2.warpAffine(image, affine_2d, shape[::-1]): a raster of the crop's shape
\* resampled from the given one.
warpAffine(raster, affine_2d, dsize) ==
    [of |-> raster.stamp, shape |-> <<dsize[2], dsize[1]>>, warp |-> affine_2d]

\* _rotate_and_crop_image(image, degrees, shape): no test of shape against
\* image.shape is made.
_rotate_and_crop_image(raster, degrees, shape) ==
    LET affine == _get_affine_matrix(raster.shape, degrees, shape[1], shape[2])
        affine_2d == << <<affine[1][1], affine[1][2], affine[1][4]>>,
                        <<affine[2][1], affine[2][2], affine[2][4]>> >>
    IN  [image |-> warpAffine(raster, affine_2d, <<shape[2], shape[1]>>),
         affine |-> affine]

(***************************************************************************)
(* The pose post-processing: lines 289-345 of _pnp_image and the method    *)
(* _post_process_pose.  Their unbound names are inputs: the solver's pose, *)
(* intermediate_outputs.affine_transform, and whether geopoint and         *)
(* altitude are present.  Only what decides the outcome is modelled: which *)
(* inversion raises, and what is returned.                                 *)
(***************************************************************************)

\* "except np.linalg.LinAlgError" of _pnp_image around inv(affine_transform):
\* warn and return None.
Step2Handler(msg) == [ret |-> None, raised |-> "inv(affine_transform)"]

\* "except np.linalg.LinAlgError" of _pnp_image around
\* inv(intermediate_outputs.affine_transform[:3, :3]): warn and return None.
Step5Handler_FallThrough(msg) == [ret |-> msg, raised |-> "inv(affine_transform[:3, :3])"]

Step5Handler(msg) == [ret |-> None, raised |-> "inv(affine_transform[:3, :3])"]

\* Lines 289-345 of _pnp_image, from "r, t = pose" to "return pnp_image_msg".
PostProcess(msg, affine_transform, io_affine_transform, geopoint_and_altitude) ==
    IF LinAlgError(affine_transform) THEN Step2Handler(msg)
    ELSE IF geopoint_and_altitude /\ LinAlgError(Block3(io_affine_transform))
    THEN Step5Handler(msg)
    ELSE [ret |-> msg, raised |-> "nothing"]

\* _post_process_pose(inputs, pose, intermediate_outputs, context): geopoint
\* and altitude are built just before, so the rotation is always inverted.
_post_process_pose(io_affine_transform) ==
    IF LinAlgError(Block3(io_affine_transform))
    THEN [ret |-> None, raised |-> "inv(affine_transform[:3, :3])"]
    ELSE [ret |-> [geopoint |-> TRUE, altitude |-> TRUE, quaternion |-> TRUE],
          raised |-> "nothing"]

\* 4x4 matrices of the documented shape: rotations, and singular blocks.
Blocks2 == {<<1, 0, 0, 1>>, <<0, 1, -1, 0>>, <<0, 0, 0, 0>>, <<1, 1, 1, 1>>}
Translations == {<<0, 0>>, <<1, 2>>}
AffineInputs ==
    {Pad4(<< <<b[1], b[2], t[1]>>, <<b[3], b[4], t[2]>> >>) :
        b \in Blocks2, t \in Translations}

\* A message to return when nothing raises.
SomeImage == [query |-> [shape |-> <<3, 3>>], reference |-> 1]

\* The post-processing block of _pnp_image applied to drawn inputs.
PostProcessCall ==
    /\ \E a \in AffineInputs, io \in AffineInputs, present \in BOOLEAN :
          post_call' = [n |-> 1, fn |-> "_pnp_image",
                        affine_transform |-> a,
                        io_affine_transform |-> io,
                        geopoint_and_altitude |-> present,
                        out |-> PostProcess(SomeImage, a, io, present)]
    /\ UNCHANGED <<input_vars, param_vars, gate_call, pc, cycle, filter_vars, extra_vars>>

\* _post_process_pose applied to drawn inputs.
PostProcessPoseCall ==
    /\ \E io \in AffineInputs :
          post_call' = [n |-> 1, fn |-> "_post_process_pose",
                        affine_transform |-> io,
                        io_affine_transform |-> io,
                        geopoint_and_altitude |-> TRUE,
                        out |-> _post_process_pose(io)]
    /\ UNCHANGED <<input_vars, param_vars, gate_call, pc, cycle, filter_vars, extra_vars>>

(***************************************************************************)
(* The pnp_image cycle.  The property reads self.image and self.orthoimage *)
(* for the arguments, then self.orthoimage and self.camera_geopose for the *)
(* context, and _pnp_image reads self.orthoimage once more for the raster  *)
(* it converts.  A subscription callback may run between two reads, so the *)
(* cycle is modelled in steps, one per point where the node's fields are   *)
(* read.                                                                   *)
(***************************************************************************)

ImageShapes == {<<3, 3>>}
OrthoimageShapes == {<<2, 2>>, <<5, 7>>}

ImageCallback ==
    /\ \E shape \in ImageShapes : image' = [shape |-> shape]
    /\ UNCHANGED <<orthoimage, camera_geopose, altitude, param_vars, gate_call, pc,
                   cycle, post_call, filter_vars, extra_vars>>

OrthoimageCallback ==
    /\ \E shape \in OrthoimageShapes :
          LET stamp == IF orthoimage = None THEN 1 ELSE orthoimage.stamp + 1
          IN  /\ stamp <= MaxStamp
              /\ orthoimage' = [stamp |-> stamp, shape |-> shape]
    /\ UNCHANGED <<image, camera_geopose, altitude, param_vars, gate_call, pc,
                   cycle, post_call, filter_vars, extra_vars>>

NoCycle ==
    [image |-> None, orthoimage |-> None, context |-> None, orthoimage_stack |-> None,
     aligned |-> None, affine_transform |-> None, out |-> None]

\* _pose_estimation_context: read at the moment the property is evaluated.
_pose_estimation_context(o, g) ==
    IF narrow_types(<<o, g>>) THEN [orthoimage |-> o, camera_geopose |-> g] ELSE None

\* "self.image, self.orthoimage," of the call of _pnp_image
PnpImageArgs ==
    /\ pc \in {"idle", "done"}
    /\ cycle' = [NoCycle EXCEPT !.image = image, !.orthoimage = orthoimage]
    /\ pc' = "args"
    /\ UNCHANGED <<input_vars, param_vars, gate_call, post_call, filter_vars, extra_vars>>

\* "self._pose_estimation_context," of the call of _pnp_image
PnpImageContext ==
    /\ pc = "args"
    /\ cycle' = [cycle EXCEPT
                    !.context = _pose_estimation_context(orthoimage, camera_geopose)]
    /\ pc' = "context"
    /\ UNCHANGED <<input_vars, param_vars, gate_call, post_call, filter_vars, extra_vars>>

\* _pnp_image is not entered with an argument that is None: nothing is
\* published.
PnpImageSkip ==
    /\ pc = "context"
    /\ ~narrow_types(<<cycle.image, cycle.orthoimage, cycle.context>>)
    /\ cycle' = [cycle EXCEPT !.out = [ret |-> None, raised |-> "nothing"]]
    /\ pc' = "done"
    /\ UNCHANGED <<input_vars, param_vars, gate_call, post_call, filter_vars, extra_vars>>

\* The raster _pnp_image converts: "self._cv_bridge.imgmsg_to_cv2(
\* self.orthoimage, ...)", the node's field and not the argument.
OrthoimageToConvert(self_orthoimage, arg_orthoimage) == self_orthoimage

\* _pnp_image to the return of _rotate_and_crop_image.  The admission gate
\* is not called.
PnpImageAlign ==
    /\ pc = "context"
    /\ narrow_types(<<cycle.image, cycle.orthoimage, cycle.context>>)
    /\ LET orthoimage_stack == OrthoimageToConvert(orthoimage, cycle.orthoimage)
           camera_yaw_degrees == _extract_yaw(cycle.context.camera_geopose.orientation)
           crop_shape == cycle.image.shape
           result == _rotate_and_crop_image(orthoimage_stack, camera_yaw_degrees,
                                            crop_shape)
       IN  cycle' = [cycle EXCEPT !.orthoimage_stack = orthoimage_stack,
                                  !.aligned = result.image,
                                  !.affine_transform = [m |-> result.affine]]
    /\ pc' = "aligned"
    /\ UNCHANGED <<input_vars, param_vars, gate_call, post_call, filter_vars, extra_vars>>

\* The rest of _pnp_image: the stack is completed and the pose is
\* post-processed with the transform the aligner returned.  What is returned
\* is published unless it is None.
PnpImagePostProcess ==
    /\ pc = "aligned"
    /\ \E io \in AffineInputs, present \in BOOLEAN :
          cycle' = [cycle EXCEPT !.out =
                       PostProcess([query |-> cycle.image, reference |-> cycle.aligned.of],
                                   cycle.affine_transform.m, io, present)]
    /\ pc' = "done"
    /\ UNCHANGED <<input_vars, param_vars, gate_call, post_call, filter_vars, extra_vars>>

(***************************************************************************)
(* The UTM zone.  A longitude is a whole number of 1/LonScale degrees, so  *)
(* that 179.9 is a value; (longitude + 180) / 6 is then the quotient of    *)
(* two integers, and int() cuts it towards zero.                           *)
(***************************************************************************)

\* Python's int(a / b) for b > 0: the quotient cut towards zero.
int_(a, b) == IF a >= 0 THEN a \div b ELSE -((-a) \div b)

\* One zone width beyond [-180, 180] on either side.
Longitudes == (-186 * LonScale)..(186 * LonScale)

\* _determine_utm_zone(longitude): int((longitude + 180) / 6) + 1
_determine_utm_zone_NoPlusOne(longitude) ==
    int_(longitude + 180 * LonScale, 6 * LonScale)

_determine_utm_zone(longitude) ==
    int_(longitude + 180 * LonScale, 6 * LonScale) + 1

\* _determine_utm_zone applied to a drawn longitude, once in a run.
DetermineUtmZoneCall ==
    /\ static_call = NotCalled
    /\ \E longitude \in Longitudes :
          static_call' = [n |-> 1, fn |-> "_determine_utm_zone",
                          longitude |-> longitude,
                          ret |-> _determine_utm_zone(longitude)]
    /\ UNCHANGED <<node_vars, filter_vars, callers>>

(***************************************************************************)
(* _get_affine_matrix applied to drawn rasters, angles and crop sizes.     *)
(***************************************************************************)

Dims == 1..MaxDim
RightAngles == {0, 90, 180, 270}

\* Points in homogeneous coordinates, as 4x1 columns.
Points == {<< <<x>>, <<y>>, <<z>>, <<1>> >> : x \in {-1, 0, 2}, y \in {-1, 0, 2}, z \in {0, 1}}

\* One call of _get_affine_matrix in a run.
GetAffineMatrixCall ==
    /\ static_call = NotCalled
    /\ \E h \in Dims, w \in Dims, degrees \in RightAngles,
          crop_height \in Dims, crop_width \in Dims :
          static_call' = [n |-> 1, fn |-> "_get_affine_matrix",
                          shape |-> <<h, w>>, degrees |-> degrees,
                          crop_height |-> crop_height, crop_width |-> crop_width,
                          ret |-> _get_affine_matrix(<<h, w>>, degrees,
                                                     crop_height, crop_width)]
    /\ UNCHANGED <<node_vars, filter_vars, callers>>

(***************************************************************************)
(*                            Specifications                               *)
(***************************************************************************)

_MIN_MEASUREMENTS == 20

\* A filter as constructed, with the given window length.
FilterConstructed(w) ==
    /\ window_length = w
    /\ measurements = None
    /\ initial_state_mean = None
    /\ kf = None
    /\ previous_mean = None
    /\ previous_covariance = None
    /\ update_call = [n |-> 0, arg |-> <<>>, ret |-> None]
    /\ runs = [em |-> 0, filter |-> 0, filter_update |-> 0]
    /\ callers = NoCallers

\* TransformNode.__init__: nothing received yet, the parameters set.
NodeConstructed(min_alts) ==
    /\ image = None
    /\ orthoimage = None
    /\ camera_geopose = None
    /\ altitude = None
    /\ max_pitch = ROS_D_MISC_MAX_PITCH
    /\ min_match_altitude \in min_alts
    /\ gate_call = NotCalled
    /\ pc = "idle"
    /\ cycle = NoCycle
    /\ post_call = NotCalled
    /\ static_call = NotCalled

\* The pnp_image cycle with the subscriptions delivering at any time.
Init ==
    /\ FilterConstructed(_MIN_MEASUREMENTS)
    /\ NodeConstructed({ROS_D_MISC_MIN_MATCH_ALTITUDE})

Next ==
    \/ ImageCallback
    \/ OrthoimageCallback
    \/ CameraGeoposeCallback
    \/ AltitudeCallback
    \/ PnpImageArgs
    \/ PnpImageContext
    \/ PnpImageSkip
    \/ PnpImageAlign
    \/ PnpImagePostProcess

Spec == Init /\ [][Next]_vars

\* The admission gate called on whatever the subscriptions last delivered.
GateInit ==
    /\ FilterConstructed(_MIN_MEASUREMENTS)
    /\ NodeConstructed({0, ROS_D_MISC_MIN_MATCH_ALTITUDE})

GateNext ==
    \/ CameraGeoposeCallback
    \/ AltitudeCallback
    \/ ShouldEstimateGeopose

SpecGate == GateInit /\ [][GateNext]_vars

\* The pose post-processing applied to drawn inputs.
PostInit ==
    /\ FilterConstructed(_MIN_MEASUREMENTS)
    /\ NodeConstructed({ROS_D_MISC_MIN_MATCH_ALTITUDE})

PostNext ==
    \/ PostProcessCall
    \/ PostProcessPoseCall

SpecPost == PostInit /\ [][PostNext]_vars

\* One SimpleFilter fed a sequence of measurements.
FilterSpecInit ==
    /\ \E w \in 0..MaxWindow : FilterConstructed(w)
    /\ NodeConstructed({ROS_D_MISC_MIN_MATCH_ALTITUDE})

FilterNext == Update

SpecFilter == FilterSpecInit /\ [][FilterNext]_vars

\* _determine_utm_zone applied to drawn longitudes.
ZoneInit ==
    /\ FilterConstructed(_MIN_MEASUREMENTS)
    /\ NodeConstructed({ROS_D_MISC_MIN_MATCH_ALTITUDE})

ZoneNext == DetermineUtmZoneCall

SpecZone == ZoneInit /\ [][ZoneNext]_vars

\* _get_affine_matrix applied to drawn inputs.
AffineInit ==
    /\ FilterConstructed(_MIN_MEASUREMENTS)
    /\ NodeConstructed({ROS_D_MISC_MIN_MATCH_ALTITUDE})

AffineNext == GetAffineMatrixCall

SpecAffine == AffineInit /\ [][AffineNext]_vars

\* One SimpleFilter called by two callers that interleave.
ConcurrentInit ==
    /\ \E w \in 1..MaxWindow : FilterConstructed(w)
    /\ NodeConstructed({ROS_D_MISC_MIN_MATCH_ALTITUDE})

ConcurrentNext ==
    \E c \in Callers :
        \/ CallUpdate(c)
        \/ L66(c)
        \/ L48(c)
        \/ L49(c)
        \/ L70(c)
        \/ L72_vstack(c)
        \/ L72_store(c)
        \/ L80(c)
        \/ L82(c)
        \/ L87(c)
        \/ L90(c)
        \/ L94_raise(c)
        \/ L96(c)
        \/ L102(c)

SpecConcurrent == ConcurrentInit /\ [][ConcurrentNext]_vars

(***************************************************************************)
(*                               Claims                                    *)
(***************************************************************************)

\* C1 (as claimed): for a window length W >= 1 the first W - 1 calls of update
\* return None and the W-th call returns an estimate.
C1_FirstEstimateOnWindowthCall ==
    (window_length >= 1 /\ update_call.n >= 1) =>
        /\ update_call.n < window_length => update_call.ret = None
        /\ update_call.n = window_length => update_call.ret # None

GateCalledPitchWithin ==
    /\ gate_call.n = 1
    /\ gate_call.camera_geopose # None
    /\ _off_nadir_pitch(gate_call.camera_geopose.orientation) <= max_pitch

\* C2 (as claimed): the gate never accepts an altitude above ground that is
\* not-a-number, however that value was produced.
C2_NanAltitudeRejected ==
    (/\ gate_call.n = 1
     /\ gate_call.altitude # None
     /\ IsNan(gate_call.altitude.terrain)) => gate_call.ret # "True"

\* C3 (as claimed): with the pitch within the limit (and the positive minimum
\* altitude the code asserts), the gate rejects every altitude equal to or
\* below the minimum and accepts every altitude strictly above it.
C3_RejectsAtOrBelowMinimum ==
    (/\ GateCalledPitchWithin
     /\ min_match_altitude > 0
     /\ gate_call.altitude # None
     /\ ~IsNan(gate_call.altitude.terrain)) =>
        IF gate_call.altitude.terrain.v <= min_match_altitude
        THEN gate_call.ret = "False"
        ELSE gate_call.ret = "True"

\* C3 (amended): with the pitch within the limit and a positive minimum
\* altitude, the gate rejects every altitude strictly below the minimum and
\* accepts every altitude equal to or above it.
C3_RejectsStrictlyBelowMinimum ==
    (/\ GateCalledPitchWithin
     /\ min_match_altitude > 0
     /\ gate_call.altitude # None
     /\ ~IsNan(gate_call.altitude.terrain)) =>
        IF gate_call.altitude.terrain.v < min_match_altitude
        THEN gate_call.ret = "False"
        ELSE gate_call.ret = "True"

\* C3's case: the gate called with the altitude exactly at a positive minimum.
C3_Witness ==
    /\ GateCalledPitchWithin
    /\ min_match_altitude > 0
    /\ gate_call.altitude # None
    /\ gate_call.altitude.terrain = Float(min_match_altitude)
    /\ gate_call.ret = "True"

\* C4: whatever the altitude, the gate rejects when the camera orientation is
\* unavailable or the off-nadir pitch is strictly above the limit; with the
\* pitch at or below the limit and an altitude that passes (a number not below
\* a positive minimum) the gate accepts.
C4_PitchDecides ==
    gate_call.n = 1 =>
        /\ (\/ gate_call.camera_geopose = None
            \/ _off_nadir_pitch(gate_call.camera_geopose.orientation) > max_pitch)
               => gate_call.ret = "False"
        /\ (/\ GateCalledPitchWithin
            /\ min_match_altitude > 0
            /\ gate_call.altitude # None
            /\ ~IsNan(gate_call.altitude.terrain)
            /\ gate_call.altitude.terrain.v >= min_match_altitude)
               => gate_call.ret = "True"

\* C4's case: the gate called with the off-nadir pitch exactly at the limit
\* and accepting.
C4_Witness ==
    /\ gate_call.n = 1
    /\ gate_call.camera_geopose # None
    /\ _off_nadir_pitch(gate_call.camera_geopose.orientation) = max_pitch
    /\ gate_call.ret = "True"

\* C5 (as claimed): the transform _rotate_and_crop_image returns is the
\* rotation composed with the crop translation (dx, dy), the one built before
\* the translation hack.
C5_ReturnsTransformBeforeHack ==
    pc = "aligned" =>
        cycle.affine_transform.m =
            affine_3d_before_hack(cycle.orthoimage_stack.shape,
                                  _extract_yaw(cycle.context.camera_geopose.orientation),
                                  cycle.image.shape[1], cycle.image.shape[2])

\* C6 (as claimed): when the crop is higher or wider than the source raster,
\* the cycle produces no aligned raster and no transform.
C6_OversizeCropRejected ==
    (/\ pc \in {"aligned", "done"}
     /\ cycle.orthoimage_stack # None
     /\ \/ cycle.image.shape[1] > cycle.orthoimage_stack.shape[1]
        \/ cycle.image.shape[2] > cycle.orthoimage_stack.shape[2]) =>
        /\ cycle.aligned = None
        /\ cycle.affine_transform = None

\* C7: when inverting the alignment transform, or inverting the rotation block
\* of the intermediate outputs' transform, raises, the post-processing returns
\* None and nothing else; either failure alone is enough.
C7_InversionFailureReturnsNone ==
    post_call.n = 1 =>
        /\ (/\ post_call.fn = "_pnp_image"
            /\ \/ LinAlgError(post_call.affine_transform)
               \/ /\ post_call.geopoint_and_altitude
                  /\ LinAlgError(Block3(post_call.io_affine_transform)))
               => post_call.out.ret = None
        /\ (/\ post_call.fn = "_post_process_pose"
            /\ LinAlgError(Block3(post_call.io_affine_transform)))
               => post_call.out.ret = None

\* C7's case: the alignment transform inverts, the rotation block does not,
\* and nothing is returned.
C7_Witness ==
    /\ post_call.n = 1
    /\ post_call.fn = "_pnp_image"
    /\ ~LinAlgError(post_call.affine_transform)
    /\ post_call.geopoint_and_altitude
    /\ LinAlgError(Block3(post_call.io_affine_transform))
    /\ post_call.out.ret = None

\* C9 (as claimed): the aligner runs only where the admission gate accepts.
C9_AlignerOnlyWhereGateAccepts ==
    [][(pc = "context" /\ pc' = "aligned") =>
          _should_estimate_geopose(altitude, camera_geopose, max_pitch,
                                   min_match_altitude) = "True"]_vars

\* C10 (as claimed): the orthoimage that is rotated and cropped is the message
\* of the cycle's context and of the cycle's argument.
C10_OneOrthoimagePerCycle ==
    pc = "aligned" =>
        /\ cycle.orthoimage_stack = cycle.context.orthoimage
        /\ cycle.context.orthoimage = cycle.orthoimage

\* A call of _determine_utm_zone was made with a longitude in [-180, 180].
ZoneCalledInRange ==
    /\ static_call.n = 1
    /\ static_call.fn = "_determine_utm_zone"
    /\ static_call.longitude >= -180 * LonScale
    /\ static_call.longitude <= 180 * LonScale

\* C11: for every longitude in [-180, 180] the zone returned is
\* floor((longitude + 180) / 6) + 1: 1 at -180, 31 at 0, and 60 from 174 up to
\* but not including 180 (179.9 among them).
C11_ZoneIsFloorFormula ==
    ZoneCalledInRange =>
        /\ static_call.ret =
               ((static_call.longitude + 180 * LonScale) \div (6 * LonScale)) + 1
        /\ static_call.longitude = -180 * LonScale => static_call.ret = 1
        /\ static_call.longitude = 0 => static_call.ret = 31
        /\ (/\ static_call.longitude >= 174 * LonScale
            /\ static_call.longitude < 180 * LonScale) => static_call.ret = 60

\* C11's case: the last longitude below 180 (179.9 at tenths of a degree) is
\* in zone 60.
C11_Witness ==
    /\ ZoneCalledInRange
    /\ static_call.longitude = 180 * LonScale - 1
    /\ static_call.ret = 60

\* C15 (as claimed): for every longitude in [-180, 180], 180 included, the
\* zone returned is between 1 and 60.
C15_ZoneBetween1And60 ==
    ZoneCalledInRange => (static_call.ret >= 1 /\ static_call.ret <= 60)

\* A call of _get_affine_matrix was made with a crop not larger than the
\* raster.
AffineCalledCropFits ==
    /\ static_call.n = 1
    /\ static_call.fn = "_get_affine_matrix"
    /\ static_call.crop_height <= static_call.shape[1]
    /\ static_call.crop_width <= static_call.shape[2]

\* C12: for every multiple of 90 degrees and every crop not larger than the
\* raster, the transform _get_affine_matrix returns is invertible, and the
\* transform followed by its inverse takes every point back to itself.
C12_TransformInvertsBack ==
    AffineCalledCropFits =>
        /\ ~LinAlgError(static_call.ret)
        /\ \A p \in Points :
              Dot(inv(static_call.ret), Dot(static_call.ret, p)) = p

\* C12's case: a quarter turn with a crop smaller than the raster, a point
\* moved by the transform and brought back by its inverse.
C12_Witness ==
    /\ AffineCalledCropFits
    /\ static_call.degrees = 90
    /\ static_call.crop_height < static_call.shape[1]
    /\ static_call.crop_width < static_call.shape[2]
    /\ ~LinAlgError(static_call.ret)
    /\ \E p \in Points :
          /\ Dot(static_call.ret, p) # p
          /\ Dot(inv(static_call.ret), Dot(static_call.ret, p)) = p

\* C14 (as claimed): every measurement passed to update is stored in the
\* buffer or goes through one filter_update step, so the calls made so far are
\* as many as the buffered rows and the filter_update steps together.
C14_NoMeasurementDropped ==
    update_call.n =
        (IF measurements = None THEN 0 ELSE len(measurements)) + runs.filter_update

\* C13 (as claimed): whatever the interleaving of two callers of update, the
\* outcome is one that calls made one after the other can give: the priming
\* runs at most once, no call fails on a missing stored estimate, and once
\* both callers are back every call has left its trace (a buffered row, the
\* priming, or one filter_update step) and the stored mean is the priming
\* followed by every filter_update step made.
C13_SameAsSequentialOrder ==
    /\ runs.em <= 1
    /\ update_call.ret # AssertionErrorRaised
    /\ Active = {} =>
          /\ update_call.n =
                 (IF measurements = None THEN 0 ELSE len(measurements))
                 + runs.em + runs.filter_update
          /\ previous_mean # None =>
                 Len(previous_mean.from) = len(measurements) + runs.filter_update

=============================================================================
